---- MODULE Spec2Model ----
(***************************************************************************)
(* Model of the analysis pipeline of src/core/analyzer.py:                 *)
(*   CodeAnalyzer.analyze_code       (retry loop around the external call) *)
(*   CodeAnalyzer._parse_api_response (extraction, json.loads, normalizer) *)
(*   CodeAnalyzer._parse_finding      (one item -> Finding)                *)
(*                                                                         *)
(* Text is modelled as a sequence of lexical tokens, a Python str used as  *)
(* an enum name as a sequence of one-character strings.  String tokens are *)
(* taken to contain no brace and no backtick.                              *)
(***************************************************************************)
EXTENDS Integers, Sequences, FiniteSets, TLC

(***************************************************************************)
(* Bounds of the model.                                                    *)
(***************************************************************************)
MaxRetriesBound == 4
MaxCodeLen == 1
MaxItems == 3
MaxStray == 4
MaxCaseFlips == 2
MaxFiles == 3
MaxRequests == 3
MaxRate == 2
MaxClock == 80

(***************************************************************************)
(* Python str: case conversion.                                            *)
(***************************************************************************)
LowerLetters == <<"a","b","c","d","e","f","g","h","i","j","k","l","m",
                  "n","o","p","q","r","s","t","u","v","w","x","y","z">>
UpperLetters == <<"A","B","C","D","E","F","G","H","I","J","K","L","M",
                  "N","O","P","Q","R","S","T","U","V","W","X","Y","Z">>

LowerChar(c) ==
    IF \E i \in DOMAIN UpperLetters : UpperLetters[i] = c
    THEN LowerLetters[CHOOSE i \in DOMAIN UpperLetters : UpperLetters[i] = c]
    ELSE c

UpperChar(c) ==
    IF \E i \in DOMAIN LowerLetters : LowerLetters[i] = c
    THEN UpperLetters[CHOOSE i \in DOMAIN LowerLetters : LowerLetters[i] = c]
    ELSE c

\* mutant: no case conversion
LowerIdentity(s) == s

\* str.lower()
Lower(s) == [i \in DOMAIN s |-> LowerChar(s[i])]
\* str.upper()
Upper(s) == [i \in DOMAIN s |-> UpperChar(s[i])]

\* str.strip() leaves nothing: every character is whitespace
StripIsEmpty(s) == \A i \in DOMAIN s : s[i] \in {" ", "\n", "\t"}

(***************************************************************************)
(* The enums of src/core/findings.py, as the strings of their values.      *)
(***************************************************************************)
sCritical == <<"c","r","i","t","i","c","a","l">>
sHigh == <<"h","i","g","h">>
sMedium == <<"m","e","d","i","u","m">>
sLow == <<"l","o","w">>
sInfo == <<"i","n","f","o">>
Severity == {sCritical, sHigh, sMedium, sLow, sInfo}

sSecurity == <<"s","e","c","u","r","i","t","y">>
sBug == <<"b","u","g">>
sQuality == <<"q","u","a","l","i","t","y">>
sPerformance == <<"p","e","r","f","o","r","m","a","n","c","e">>
sAccessibility == <<"a","c","c","e","s","s","i","b","i","l","i","t","y">>
FindingType == {sSecurity, sBug, sQuality, sPerformance, sAccessibility}

(***************************************************************************)
(* JSON values as json.loads builds them.  One record shape for all kinds: *)
(*   k    "str" | "num" | "null" | "arr" | "obj"                           *)
(*   s    the characters of a str                                          *)
(*   n    the value of an int                                              *)
(*   a    the elements of a list, or the values of a dict                  *)
(*   keys the keys of a dict, keys[i] the key of a[i]                      *)
(***************************************************************************)
JStr(s) == [k |-> "str", s |-> s, n |-> 0, a |-> <<>>, keys |-> <<>>]
JNum(n) == [k |-> "num", s |-> <<>>, n |-> n, a |-> <<>>, keys |-> <<>>]
JNull == [k |-> "null", s |-> <<>>, n |-> 0, a |-> <<>>, keys |-> <<>>]
JArr(a) == [k |-> "arr", s |-> <<>>, n |-> 0, a |-> a, keys |-> <<>>]
JObj(keys, a) == [k |-> "obj", s |-> <<>>, n |-> 0, a |-> a, keys |-> keys]

\* dict.get(key, default); json.loads keeps the last of duplicate keys
DictGet(d, key, default) ==
    IF \E i \in DOMAIN d.keys : d.keys[i] = key
    THEN d.a[CHOOSE i \in DOMAIN d.keys :
                /\ d.keys[i] = key
                /\ \A j \in DOMAIN d.keys : d.keys[j] = key => j <= i]
    ELSE default

(***************************************************************************)
(* Text: a sequence of tokens.                                             *)
(*   fence  ```          json  the word json     ws  whitespace            *)
(*   prose  any other run of characters that JSON does not accept          *)
(*   lb { rb } lk [ rk ] comma colon, str and num literals, null           *)
(***************************************************************************)
Tok(t) == [t |-> t, s |-> <<>>, n |-> 0]
TStr(s) == [t |-> "str", s |-> s, n |-> 0]
TNum(n) == [t |-> "num", s |-> <<>>, n |-> n]

RECURSIVE Dumps(_)
RECURSIVE DumpsMembers(_, _, _)
RECURSIVE DumpsElements(_, _)

\* json.dumps: the text of a JSON value
Dumps(v) ==
    CASE v.k = "str" -> <<TStr(v.s)>>
      [] v.k = "num" -> <<TNum(v.n)>>
      [] v.k = "null" -> <<Tok("null")>>
      [] v.k = "arr" -> <<Tok("lk")>> \o DumpsElements(v.a, 1) \o <<Tok("rk")>>
      [] v.k = "obj" -> <<Tok("lb")>> \o DumpsMembers(v.keys, v.a, 1) \o <<Tok("rb")>>

DumpsElements(a, i) ==
    IF i > Len(a) THEN <<>>
    ELSE Dumps(a[i])
         \o (IF i < Len(a) THEN <<Tok("comma"), Tok("ws")>> ELSE <<>>)
         \o DumpsElements(a, i + 1)

DumpsMembers(keys, a, i) ==
    IF i > Len(a) THEN <<>>
    ELSE <<TStr(keys[i]), Tok("colon"), Tok("ws")>> \o Dumps(a[i])
         \o (IF i < Len(a) THEN <<Tok("comma"), Tok("ws")>> ELSE <<>>)
         \o DumpsMembers(keys, a, i + 1)

(***************************************************************************)
(* json.loads: a recursive-descent parse of the token text.  A result is   *)
(* [ok, v, pos]: ok is FALSE where json.loads raises JSONDecodeError, pos  *)
(* is the index after the value read.                                      *)
(***************************************************************************)
ParseFail == [ok |-> FALSE, v |-> JNull, pos |-> 0]
ParseOk(v, pos) == [ok |-> TRUE, v |-> v, pos |-> pos]

RECURSIVE SkipWs(_, _)
SkipWs(toks, i) ==
    IF i <= Len(toks) /\ toks[i].t = "ws" THEN SkipWs(toks, i + 1) ELSE i

RECURSIVE ParseValue(_, _)
RECURSIVE ParseArrayRest(_, _, _)
RECURSIVE ParseObjectRest(_, _, _, _)

\* a value starting at toks[i] (whitespace already skipped)
ParseValue(toks, i) ==
    IF i > Len(toks) THEN ParseFail
    ELSE CASE toks[i].t = "str" -> ParseOk(JStr(toks[i].s), i + 1)
           [] toks[i].t = "num" -> ParseOk(JNum(toks[i].n), i + 1)
           [] toks[i].t = "null" -> ParseOk(JNull, i + 1)
           [] toks[i].t = "lk" ->
                LET j == SkipWs(toks, i + 1)
                IN  IF j <= Len(toks) /\ toks[j].t = "rk"
                    THEN ParseOk(JArr(<<>>), j + 1)
                    ELSE ParseArrayRest(toks, j, <<>>)
           [] toks[i].t = "lb" ->
                LET j == SkipWs(toks, i + 1)
                IN  IF j <= Len(toks) /\ toks[j].t = "rb"
                    THEN ParseOk(JObj(<<>>, <<>>), j + 1)
                    ELSE ParseObjectRest(toks, j, <<>>, <<>>)
           [] OTHER -> ParseFail

\* the elements of a list from toks[i] on, acc the elements read so far
ParseArrayRest(toks, i, acc) ==
    LET r == ParseValue(toks, i)
        j == SkipWs(toks, r.pos)
    IN  IF ~r.ok \/ j > Len(toks) THEN ParseFail
        ELSE IF toks[j].t = "rk" THEN ParseOk(JArr(Append(acc, r.v)), j + 1)
        ELSE IF toks[j].t = "comma"
             THEN ParseArrayRest(toks, SkipWs(toks, j + 1), Append(acc, r.v))
        ELSE ParseFail

\* the members of a dict from toks[i] on
ParseObjectRest(toks, i, keys, vals) ==
    IF i > Len(toks) \/ toks[i].t # "str" THEN ParseFail
    ELSE LET c == SkipWs(toks, i + 1)
         IN  IF c > Len(toks) \/ toks[c].t # "colon" THEN ParseFail
             ELSE LET r == ParseValue(toks, SkipWs(toks, c + 1))
                      j == SkipWs(toks, r.pos)
                  IN  IF ~r.ok \/ j > Len(toks) THEN ParseFail
                      ELSE IF toks[j].t = "rb"
                           THEN ParseOk(JObj(Append(keys, toks[i].s),
                                             Append(vals, r.v)), j + 1)
                      ELSE IF toks[j].t = "comma"
                           THEN ParseObjectRest(toks, SkipWs(toks, j + 1),
                                                Append(keys, toks[i].s),
                                                Append(vals, r.v))
                      ELSE ParseFail

\* json.loads(text): one value, whitespace around it, nothing else
Loads(toks) ==
    LET r == ParseValue(toks, SkipWs(toks, 1))
    IN  IF r.ok /\ SkipWs(toks, r.pos) > Len(toks) THEN r ELSE ParseFail

(***************************************************************************)
(* Extraction of the JSON text from the reply (_parse_api_response, the    *)
(* two re.search calls).  A span is [how, from, to].                       *)
(***************************************************************************)
NoMatchSpan == [how |-> "none", from |-> 0, to |-> 0]

MinOf(S) == CHOOSE x \in S : \A y \in S : x <= y
MaxOf(S) == CHOOSE x \in S : \A y \in S : y <= x

\* ```(?:json)?\s*\{ matched from text[i]: the index of the brace, else 0
FenceOpenAt(text, i) ==
    IF text[i].t # "fence" THEN 0
    ELSE LET j == IF i + 1 <= Len(text) /\ text[i + 1].t = "json"
                  THEN i + 2 ELSE i + 1
             b == SkipWs(text, j)
         IN  IF b <= Len(text) /\ text[b].t = "lb" THEN b ELSE 0

\* the closing braces that \}\s*``` can match after the opening brace b
FenceCloses(text, b) ==
    { e \in (b + 1)..Len(text) :
        /\ text[e].t = "rb"
        /\ LET f == SkipWs(text, e + 1)
           IN  f <= Len(text) /\ text[f].t = "fence" }

\* the start positions at which the fenced pattern matches
FenceStarts(text) ==
    { i \in DOMAIN text :
        FenceOpenAt(text, i) # 0 /\ FenceCloses(text, FenceOpenAt(text, i)) # {} }

\* re.search: the leftmost start, .*? the nearest closing brace; group(1)
FenceSearch(text) ==
    IF FenceStarts(text) = {} THEN NoMatchSpan
    ELSE LET b == FenceOpenAt(text, MinOf(FenceStarts(text)))
         IN  [how |-> "fence", from |-> b, to |-> MinOf(FenceCloses(text, b))]

\* re.search(r'\{.*\}'): from the first { to the last } after it; group(0)
\* mutant: the span ends at the first closing brace after the first opening
\* one
ObjectSearchLazy(text) ==
    LET lbs == { i \in DOMAIN text : text[i].t = "lb" }
        rbs == { i \in DOMAIN text : text[i].t = "rb" }
    IN  IF lbs # {} /\ rbs # {} /\ MinOf(lbs) < MaxOf(rbs)
        THEN [how |-> "object", from |-> MinOf(lbs),
              to |-> MinOf({ j \in rbs : j > MinOf(lbs) })]
        ELSE NoMatchSpan

ObjectSearch(text) ==
    LET lbs == { i \in DOMAIN text : text[i].t = "lb" }
        rbs == { i \in DOMAIN text : text[i].t = "rb" }
    IN  IF lbs # {} /\ rbs # {} /\ MinOf(lbs) < MaxOf(rbs)
        THEN [how |-> "object", from |-> MinOf(lbs), to |-> MaxOf(rbs)]
        ELSE NoMatchSpan

ExtractSpan(text) ==
    IF FenceSearch(text).how = "fence" THEN FenceSearch(text)
    ELSE ObjectSearch(text)

\* the text handed to json.loads
Extract(text) ==
    LET sp == ExtractSpan(text)
    IN  IF sp.how = "none" THEN text ELSE SubSeq(text, sp.from, sp.to)

(***************************************************************************)
(* _parse_finding: one item of the findings array -> Finding.  The result  *)
(* is [raised, f]; raised where the Python raises (AttributeError: the     *)
(* item has no .get, or the severity/type value has no .lower/.upper).     *)
(* line and remediation stand for the fields copied with a plain .get      *)
(* (column, end_line, end_column, code_snippet, rule_id take the same      *)
(* path).                                                                  *)
(***************************************************************************)
kSeverity == <<"s","e","v","e","r","i","t","y">>
kType == <<"t","y","p","e">>
kLine == <<"l","i","n","e">>
kMessage == <<"m","e","s","s","a","g","e">>
kRemediation == <<"r","e","m","e","d","i","a","t","i","o","n">>
kFindings == <<"f","i","n","d","i","n","g","s">>
sUnknownIssue == <<"U","n","k","n","o","w","n"," ","i","s","s","u","e">>

NoFinding ==
    [type |-> <<>>, severity |-> <<>>, message |-> JNull, file_path |-> "",
     line |-> JNull, remediation |-> JNull]

\* mutant: the lookup always takes the default
SeverityMapGetDefault(severity_str) == sMedium

\* severity_map.get(severity_str, Severity.MEDIUM)
SeverityMapGet(severity_str) ==
    IF severity_str \in Severity THEN severity_str ELSE sMedium

\* type_map.get(type_str, FindingType.QUALITY): the keys are upper case
TypeMapGet(type_str) ==
    IF \E t \in FindingType : Upper(t) = type_str
    THEN CHOOSE t \in FindingType : Upper(t) = type_str
    ELSE sQuality

ParseFinding(finding_data, file_path) ==
    IF finding_data.k # "obj" THEN [raised |-> TRUE, f |-> NoFinding]
    ELSE LET sev == DictGet(finding_data, kSeverity, JStr(sMedium))
             typ == DictGet(finding_data, kType, JStr(Upper(sQuality)))
         IN  IF sev.k # "str" \/ typ.k # "str"
             THEN [raised |-> TRUE, f |-> NoFinding]
             ELSE [raised |-> FALSE,
                   f |-> [type |-> TypeMapGet(Upper(typ.s)),
                          severity |-> SeverityMapGet(Lower(sev.s)),
                          message |-> DictGet(finding_data, kMessage,
                                              JStr(sUnknownIssue)),
                          file_path |-> file_path,
                          line |-> DictGet(finding_data, kLine, JNull),
                          remediation |-> DictGet(finding_data, kRemediation,
                                                  JNull)]]

(***************************************************************************)
(* _parse_api_response: extraction, json.loads, the per-item loop.  The    *)
(* result is [raised, findings]; raised where an exception other than      *)
(* JSONDecodeError leaves the function (iterating a findings value that is *)
(* no iterable).                                                           *)
(***************************************************************************)
\* mutant: the first item that raises discards the whole batch
RECURSIVE ParseItemsAbortBatch(_, _, _, _)
ParseItemsAbortBatch(items, i, file_path, findings) ==
    IF i > Len(items) THEN findings
    ELSE LET r == ParseFinding(items[i], file_path)
         IN  IF r.raised THEN <<>>
             ELSE ParseItemsAbortBatch(items, i + 1, file_path,
                                       Append(findings, r.f))

RECURSIVE ParseItems(_, _, _, _)
\* for finding_data in findings_data: try ... except Exception: log
ParseItems(items, i, file_path, findings) ==
    IF i > Len(items) THEN findings
    ELSE LET r == ParseFinding(items[i], file_path)
         IN  ParseItems(items, i + 1, file_path,
                        IF r.raised THEN findings ELSE Append(findings, r.f))

\* what "for x in value" yields: elements of a list, keys of a dict,
\* characters of a str
IterItems(v) ==
    CASE v.k = "arr" -> v.a
      [] v.k = "obj" -> [i \in DOMAIN v.keys |-> JStr(v.keys[i])]
      [] v.k = "str" -> [i \in DOMAIN v.s |-> JStr(<<v.s[i]>>)]
      [] OTHER -> <<>>

Iterable(v) == v.k \in {"arr", "obj", "str"}

\* mutant: JSONDecodeError and the unexpected-format case leave the function
NormalizePropagates(text, file_path) ==
    LET data == Loads(text)
    IN  IF ~data.ok \/ data.v.k \notin {"obj", "arr"}
        THEN [raised |-> TRUE, findings |-> <<>>]
        ELSE [raised |-> FALSE, findings |-> <<>>]

\* lines 128-151: json.loads of the extracted text and the loop
Normalize(text, file_path) ==
    LET data == Loads(text)
    IN  IF ~data.ok THEN [raised |-> FALSE, findings |-> <<>>]
        ELSE IF data.v.k \notin {"obj", "arr"}
             THEN [raised |-> FALSE, findings |-> <<>>]
        ELSE LET findings_data ==
                     IF data.v.k = "obj"
                     THEN DictGet(data.v, kFindings, JArr(<<>>))
                     ELSE data.v
             IN  IF ~Iterable(findings_data)
                 THEN [raised |-> TRUE, findings |-> <<>>]
                 ELSE [raised |-> FALSE,
                       findings |-> ParseItems(IterItems(findings_data), 1,
                                               file_path, <<>>)]

ParseApiResponse(response_text, file_path) ==
    Normalize(Extract(response_text), file_path)

(***************************************************************************)
(* Replies of the external service.  A reply is the text of a JSON value   *)
(* (given), optionally inside a fenced block, between a prefix and a       *)
(* suffix: wrap = [pre, fence, post], fence "none" | "json" | "plain".     *)
(***************************************************************************)
FenceOpen(fence) ==
    CASE fence = "json" -> <<Tok("fence"), Tok("json"), Tok("ws")>>
      [] fence = "plain" -> <<Tok("fence"), Tok("ws")>>
      [] OTHER -> <<>>

FenceClose(fence) ==
    IF fence = "none" THEN <<>> ELSE <<Tok("ws"), Tok("fence")>>

Render(g, w) ==
    w.pre \o FenceOpen(w.fence) \o Dumps(g) \o FenceClose(w.fence) \o w.post

NoWrap == [pre |-> <<>>, fence |-> "none", post |-> <<>>]

\* all sequences over S of length at most n
SeqsUpTo(S, n) == UNION { [1..m -> S] : m \in 0..n }

(***************************************************************************)
(* State.                                                                  *)
(*   max_retries            self.max_retries of the constructed analyzer   *)
(*   code .. analysis_type  the arguments of analyze_code                  *)
(*   pc        where analyze_code stands                                   *)
(*   attempt   the loop variable of "for attempt in range(max_retries)"    *)
(*   calls     client.messages.create calls issued so far                  *)
(*   sleeps    the delays passed to time.sleep so far, in order            *)
(*   outcomes  how each call ended, in order                               *)
(*   given, wrap, reply  the reply text of the current call                *)
(*   response, json_match  the locals of _parse_api_response after the     *)
(*             regular expressions, when that function is entered alone    *)
(*   result    the list returned                                           *)
(*   raised    an exception left the function                              *)
(*   prompt    the prompt built by get_prompt                              *)
(*   api_key, env_api_key  the argument of __init__ and the environment's  *)
(*             ANTHROPIC_API_KEY; self_api_key, client  the attributes set *)
(*   dir_pc .. visited  analyze_directory: its position, the files found,  *)
(*             the index of the file at hand, its accumulators, and what   *)
(*             became of each file visited                                 *)
(*   analysis  an AnalysisResult; min_severity  the reporter's threshold;  *)
(*   report    the AnalysisResult filter_findings returns                  *)
(*   clock     time.time() of the server, in seconds                       *)
(*   requests_per_minute, requests  the attributes of RateLimitMiddleware  *)
(*   inbox     the requests received and not yet dispatched                *)
(*   log       the requests dispatched, in the order of their dispatch     *)
(*   loop_owner  the index in log of the request whose handler runs on the *)
(*             event loop, 0 when the loop is free                         *)
(***************************************************************************)
VARIABLES pc, max_retries, code, language, file_name, analysis_type,
          attempt, calls, sleeps, outcomes, given, wrap, reply, response,
          json_match, result, raised,
          prompt,
          api_key, env_api_key, self_api_key, client,
          dir_pc, files, file_index, all_findings, files_analyzed,
          total_lines, visited,
          analysis, min_severity, report,
          clock, requests_per_minute, requests, inbox, log, loop_owner

vars == <<pc, max_retries, code, language, file_name, analysis_type,
          attempt, calls, sleeps, outcomes, given, wrap, reply, response,
          json_match, result, raised,
          prompt,
          api_key, env_api_key, self_api_key, client,
          dir_pc, files, file_index, all_findings, files_analyzed,
          total_lines, visited,
          analysis, min_severity, report,
          clock, requests_per_minute, requests, inbox, log, loop_owner>>

\* the arguments and attributes of __init__
credentials == <<api_key, env_api_key, self_api_key, client>>

\* the locals of analyze_directory
walk == <<dir_pc, files, file_index, all_findings, files_analyzed,
          total_lines, visited>>

\* an AnalysisResult and the reporter it is handed to
reporting == <<analysis, min_severity, report>>

\* what analyze_code and the functions it calls leave alone
\* the REST server: its clock, the rate limiter's attributes, the requests
\* that arrived, the requests dispatched, and the request whose handler
\* holds the event loop
server == <<clock, requests_per_minute, requests, inbox, log, loop_owner>>

config == <<max_retries, code, language, file_name, analysis_type,
            credentials, walk, reporting, server>>

locals == <<response, json_match>>


(***************************************************************************)
(* get_prompt (src/core/prompts.py).  A prompt is the template that built  *)
(* it and the three values the template embeds.                            *)
(***************************************************************************)
pSecurity == <<"s","e","c","u","r","i","t","y">>
pBugs == <<"b","u","g","s">>
pQuality == <<"q","u","a","l","i","t","y">>
pComprehensive == <<"c","o","m","p","r","e","h","e","n","s","i","v","e">>

\* the keys of the prompts dict
PromptNames == {pSecurity, pBugs, pQuality, pComprehensive}

\* get_security_prompt, get_bug_detection_prompt, get_quality_prompt and
\* get_comprehensive_prompt: f-strings over file_name, code and language
PromptFunc(name, fn, c, lang) ==
    [template |-> name, file_name |-> fn, code |-> c, language |-> lang]

NoPrompt == PromptFunc(<<>>, "", <<>>, "")

\* mutant: the dict is looked up with analysis_type as given
get_prompt_exact(at, fn, c, lang) ==
    IF at \in PromptNames
    THEN PromptFunc(at, fn, c, lang)
    ELSE PromptFunc(pComprehensive, fn, c, lang)

\* prompts.get(analysis_type.lower(), get_comprehensive_prompt)(...)
get_prompt(at, fn, c, lang) ==
    IF Lower(at) \in PromptNames
    THEN PromptFunc(Lower(at), fn, c, lang)
    ELSE PromptFunc(pComprehensive, fn, c, lang)

(***************************************************************************)
(* CodeAnalyzer.__init__: the credential.                                  *)
(***************************************************************************)
\* Python's None, where the other values are strings
NoneValue == "None"

\* bool(x) of None or a string
Truthy(x) == x \notin {NoneValue, ""}

\* mutant: the environment is not consulted
CredentialArgumentOnly(arg, env) == arg

\* api_key or os.getenv("ANTHROPIC_API_KEY")
Credential(arg, env) == IF Truthy(arg) THEN arg ELSE env

\* an analyzer built with a key passed as argument
Constructed ==
    /\ api_key = "sk-arg"
    /\ env_api_key = NoneValue
    /\ self_api_key = "sk-arg"
    /\ client = "sk-arg"

(***************************************************************************)
(* AnalysisResult (src/core/findings.py) and the idle values of            *)
(* analyze_directory and of the reporter.                                  *)
(***************************************************************************)
\* None as a reporter's min_severity
NoSeverity == <<>>

AnalysisResult(fs, fa, tl, at) ==
    [findings |-> fs, files_analyzed |-> fa, total_lines |-> tl,
     analysis_time_seconds |-> "elapsed", timestamp |-> "now",
     metadata |-> [directory |-> "src", analysis_type |-> at,
                   model |-> "claude-3-haiku-20240307"]]

NoAnalysis == AnalysisResult(<<>>, 0, 0, <<>>)

\* analyze_directory is not running
NoWalk ==
    /\ dir_pc = "idle"
    /\ files = <<>>
    /\ file_index = 0
    /\ all_findings = <<>>
    /\ files_analyzed = 0
    /\ total_lines = 0
    /\ visited = <<>>

\* the client addresses
ClientIps == {"10.0.0.1", "10.0.0.2"}

\* no server running
NoServer ==
    /\ clock = 0
    /\ requests_per_minute = 60
    /\ requests = [ip \in ClientIps |-> <<>>]
    /\ inbox = <<>>
    /\ log = <<>>
    /\ loop_owner = 0

\* no reporter at work
NoReport ==
    /\ analysis = NoAnalysis
    /\ min_severity = NoSeverity
    /\ report = NoAnalysis

Codes == SeqsUpTo({" ", "\n", "x"}, MaxCodeLen)
Languages == {"python", "javascript"}
FileNames == {"unknown", "test.py"}
AnalysisTypes == {pComprehensive, pSecurity}

\* mutant: the strip() test left out
IsBlankEmptyOnly(c) == Len(c) = 0

\* if not code or not code.strip()
IsBlank(c) == Len(c) = 0 \/ StripIsEmpty(c)

\* mutant: linear instead of doubling backoff
BackoffDelayLinear(a) == a + 1

\* 2 ** attempt
BackoffDelay(a) == 2 ^ a

\* mutant: sleeps after the last permitted attempt too
ShouldRetryOffByOne(a, mr) == a < mr

\* if attempt < self.max_retries - 1
ShouldRetry(a, mr) == a < mr - 1

(***************************************************************************)
(* The replies the model draws from.                                       *)
(***************************************************************************)
mSqlInjection == <<"S","Q","L">>
mNullPointer == <<"N","u","l","l">>
mLongLine == <<"l","o","n","g">>
kLevel == <<"l","e","v","e","l">>

Item(type_s, sev, line, msg) ==
    JObj(<<kType, kSeverity, kLine, kMessage>>,
         <<JStr(type_s), sev, JNum(line), JStr(msg)>>)

\* items with every field of the documented shape
GoodItems ==
    { Item(Upper(sSecurity), JStr(sCritical), 10, mSqlInjection),
      Item(Upper(sBug), JStr(sHigh), 5, mNullPointer),
      Item(Upper(sQuality), JStr(sLow), 42, mLongLine) }

\* items whose mapping raises: a nested object as severity, a bare number
BadItems ==
    { Item(Upper(sBug), JObj(<<kLevel>>, <<JStr(sHigh)>>), 7, mNullPointer),
      JNum(7) }

ItemArrays == SeqsUpTo(GoodItems \cup BadItems, MaxItems)

FindingsObject(a) == JObj(<<kFindings>>, <<a>>)

\* top-level values and findings values of other shapes
OddGivens ==
    { JStr(sHigh), JNum(3), JNull, JObj(<<>>, <<>>),
      FindingsObject(JNull), FindingsObject(JNum(1)), FindingsObject(JStr(sLow)),
      FindingsObject(JObj(<<kLine>>, <<JNum(1)>>)) }

ParseGivens ==
    { FindingsObject(JArr(a)) : a \in ItemArrays }
        \cup { JArr(a) : a \in ItemArrays } \cup OddGivens

ParseWraps ==
    { [pre |-> px[1], fence |-> f, post |-> px[2]] :
        px \in { <<(<<>>), (<<>>)>>,
                 <<(<<Tok("prose"), Tok("ws")>>), (<<Tok("ws"), Tok("prose")>>)>> },
        f \in {"none", "json", "plain"} }

RetryGivens ==
    { FindingsObject(JArr(<<Item(Upper(sSecurity), JStr(sCritical), 10,
                                 mSqlInjection)>>)),
      FindingsObject(JArr(<<Item(Upper(sQuality), JStr(sLow), 42, mLongLine),
                            Item(Upper(sBug), JStr(sHigh), 5, mNullPointer),
                            Item(Upper(sQuality), JStr(sLow), 42, mLongLine)>>)),
      FindingsObject(JArr(<<>>)), FindingsObject(JNull), JNum(3),
      JArr(<<JNum(7)>>) }

RetryWraps ==
    { NoWrap, [pre |-> <<>>, fence |-> "json", post |-> <<>>],
      [pre |-> <<Tok("prose"), Tok("ws")>>, fence |-> "none", post |-> <<>>] }

(***************************************************************************)
(* analyze_code, one action per step of the function.                      *)
(***************************************************************************)
Init ==
    /\ pc = "ready"
    /\ max_retries \in 0..MaxRetriesBound
    /\ code \in Codes
    /\ language \in Languages
    /\ file_name \in FileNames
    /\ analysis_type \in AnalysisTypes
    /\ prompt = NoPrompt
    /\ Constructed
    /\ NoWalk
    /\ NoServer
    /\ NoReport
    /\ attempt = 0
    /\ calls = 0
    /\ sleeps = <<>>
    /\ outcomes = <<>>
    /\ given = JNull
    /\ wrap = NoWrap
    /\ reply = <<>>
    /\ response = <<>>
    /\ json_match = NoMatchSpan
    /\ result = <<>>
    /\ raised = FALSE

\* lines 171-176: the blank check, then the prompt
Enter ==
    /\ pc = "ready"
    /\ IF IsBlank(code)
       THEN pc' = "returned" /\ prompt' = prompt
       ELSE /\ pc' = "loop"
            /\ prompt' = get_prompt(analysis_type, file_name, code, language)
    /\ UNCHANGED <<config, attempt, calls, sleeps, outcomes, given, wrap,
                   reply, locals,
                   result, raised>>

\* line 179 and 181: the loop head issues the call; line 217 after the loop
LoopHead ==
    /\ pc = "loop"
    /\ IF attempt < max_retries
       THEN pc' = "calling" /\ calls' = calls + 1
       ELSE pc' = "returned" /\ calls' = calls
    /\ UNCHANGED <<config, prompt, attempt, sleeps, outcomes, given, wrap, reply,
                   locals, result, raised>>

\* mutant: the last failure is re-raised to the caller
HandleExceptionReraise(why) ==
    /\ outcomes' = Append(outcomes, why)
    /\ IF ShouldRetry(attempt, max_retries)
       THEN /\ sleeps' = Append(sleeps, BackoffDelay(attempt))
            /\ pc' = "sleeping"
            /\ raised' = raised
       ELSE /\ sleeps' = sleeps
            /\ pc' = "returned"
            /\ raised' = TRUE
    /\ result' = <<>>
    /\ UNCHANGED <<config, prompt, attempt, calls, locals>>

\* lines 207-215: the except branch, entered with exception kind why
HandleException(why) ==
    /\ outcomes' = Append(outcomes, why)
    /\ IF ShouldRetry(attempt, max_retries)
       THEN /\ sleeps' = Append(sleeps, BackoffDelay(attempt))
            /\ pc' = "sleeping"
       ELSE /\ sleeps' = sleeps
            /\ pc' = "returned"
    /\ result' = <<>>
    /\ UNCHANGED <<config, prompt, attempt, calls, locals, raised>>

\* the call raises (network error, non-success response, timeout)
CallRaises ==
    /\ pc = "calling"
    /\ HandleException("exception")
    /\ UNCHANGED <<given, wrap, reply>>

\* mutant: a response without content handled like a failed call
CallReturnsEmptyRetried ==
    /\ pc = "calling"
    /\ HandleException("empty")
    /\ UNCHANGED <<given, wrap, reply>>

\* lines 194-198: the call returns a response without content
CallReturnsEmpty ==
    /\ pc = "calling"
    /\ outcomes' = Append(outcomes, "empty")
    /\ pc' = "returned"
    /\ result' = <<>>
    /\ UNCHANGED <<config, prompt, attempt, calls, sleeps, given, wrap, reply,
                   locals, raised>>

\* lines 194-205: the call returns text, which is parsed
CallReturnsText ==
    /\ pc = "calling"
    /\ \E g \in RetryGivens, w \in RetryWraps :
         LET r == ParseApiResponse(Render(g, w), file_name)
         IN  IF r.raised
             THEN /\ HandleException("parse_error")
                  /\ UNCHANGED <<given, wrap, reply>>
             ELSE /\ given' = g
                  /\ wrap' = w
                  /\ reply' = Render(g, w)
                  /\ outcomes' = Append(outcomes, "text")
                  /\ result' = r.findings
                  /\ pc' = "returned"
                  /\ UNCHANGED <<config, prompt, attempt, calls, sleeps, locals,
                                 raised>>

\* mutant: the sleep never ends
WakeNever ==
    /\ pc = "sleeping"
    /\ UNCHANGED vars

\* line 212: time.sleep returns, the loop goes on
Wake ==
    /\ pc = "sleeping"
    /\ attempt' = attempt + 1
    /\ pc' = "loop"
    /\ UNCHANGED <<config, prompt, calls, sleeps, outcomes, given, wrap, reply,
                   locals, result, raised>>

Next ==
    \/ Enter
    \/ LoopHead
    \/ CallRaises
    \/ CallReturnsEmpty
    \/ CallReturnsText
    \/ Wake

Spec == Init /\ [][Next]_vars

\* analyze_code runs in one thread that is not held up: a step that can be
\* taken is taken, each call returning or raising within its timeout and
\* each sleep ending
SpecLive == Init /\ [][Next]_vars /\ WF_vars(Next)

(***************************************************************************)
(* Properties of analyze_code (specification Spec).                        *)
(***************************************************************************)
\* the code argument is empty or consists of whitespace
WhitespaceOnly(c) == \A i \in DOMAIN c : c[i] \in {" ", "\n", "\t"}

AllRaised == \A i \in DOMAIN outcomes : outcomes[i] = "exception"
IsPrefix(p, q) == Len(p) <= Len(q) /\ \A i \in DOMAIN p : p[i] = q[i]

\* C1: with max_retries = 3 and every call raising, analyze_code on
\* non-blank code makes exactly 3 calls, sleeps exactly twice, 1s then 2s,
\* with no sleep after the third failure, and returns [] without raising.
C1_ThreeFailures ==
    (max_retries = 3 /\ ~WhitespaceOnly(code) /\ AllRaised) =>
        /\ calls <= 3
        /\ IsPrefix(sleeps, <<1, 2>>)
        /\ ~raised
        /\ pc = "returned" =>
              calls = 3 /\ sleeps = <<1, 2>> /\ result = <<>>

C1_Witness ==
    /\ pc = "returned"
    /\ max_retries = 3
    /\ outcomes = <<"exception", "exception", "exception">>

C3_NeverRaises ==
    /\ ~raised
    /\ (pc = "returned" /\ max_retries >= 1 /\ Len(outcomes) = max_retries
          /\ outcomes[max_retries] \in {"exception", "parse_error"})
         => result = <<>>
    /\ (pc = "returned" /\ max_retries = 0) => result = <<>> /\ calls = 0
    /\ pc # "returned" => ENABLED Next

C3_Witness ==
    /\ pc = "returned"
    /\ max_retries >= 2
    /\ Len(outcomes) = max_retries
    /\ outcomes[max_retries] = "exception"

\* C4: blank code (empty or whitespace only) never issues a call, never
\* sleeps, and returns [], whatever the other arguments are.
C4_BlankShortCircuit ==
    WhitespaceOnly(code) =>
        /\ calls = 0
        /\ sleeps = <<>>
        /\ result = <<>>
        /\ ~raised
        /\ pc \in {"ready", "returned"}

C4_Witness ==
    /\ pc = "returned"
    /\ Len(code) > 0
    /\ WhitespaceOnly(code)
    /\ max_retries >= 1

\* C5: a call that returns a response without content ends the invocation
\* at once with []: it is the last call, and no sleep follows it.
C5_EmptyReplyNotRetried ==
    \A i \in DOMAIN outcomes :
        outcomes[i] = "empty" =>
            /\ pc = "returned"
            /\ result = <<>>
            /\ i = Len(outcomes)
            /\ calls = i
            /\ Len(sleeps) = i - 1

C5_Witness ==
    /\ pc = "returned"
    /\ max_retries >= 3
    /\ outcomes = <<"exception", "empty">>

(***************************************************************************)
(* _parse_api_response entered alone (as tests/test_analyzer.py does), in  *)
(* two steps: the regular expressions, then json.loads and the loop.       *)
(***************************************************************************)
ParseBase ==
    /\ max_retries = 3
    /\ code = <<>>
    /\ language = "python"
    /\ analysis_type = pComprehensive
    /\ prompt = NoPrompt
    /\ Constructed
    /\ NoWalk
    /\ NoServer
    /\ NoReport
    /\ attempt = 0
    /\ calls = 0
    /\ sleeps = <<>>
    /\ outcomes = <<>>
    /\ response = <<>>
    /\ json_match = NoMatchSpan
    /\ result = <<>>
    /\ raised = FALSE

ParseInit ==
    /\ pc = "parse_ready"
    /\ ParseBase
    /\ file_name = "test.py"
    /\ given \in ParseGivens
    /\ wrap \in ParseWraps
    /\ reply = Render(given, wrap)

\* lines 116-125
ExtractStep ==
    /\ pc = "parse_ready"
    /\ json_match' = ExtractSpan(reply)
    /\ response' = Extract(reply)
    /\ pc' = "extracted"
    /\ UNCHANGED <<config, prompt, attempt, calls, sleeps, outcomes, given, wrap,
                   reply, result, raised>>

\* lines 128-151
NormalizeStep ==
    /\ pc = "extracted"
    /\ LET r == Normalize(response, file_name)
       IN  result' = r.findings /\ raised' = r.raised
    /\ pc' = "parse_done"
    /\ UNCHANGED <<config, prompt, attempt, calls, sleeps, outcomes, given, wrap,
                   reply, locals>>

PipelineInit == Init \/ ParseInit

PipelineNext ==
    \/ Enter
    \/ LoopHead
    \/ CallRaises
    \/ CallReturnsEmpty
    \/ CallReturnsText
    \/ Wake
    \/ ExtractStep
    \/ NormalizeStep

\* analyze_code and _parse_api_response, each entered by its caller
SpecParse == PipelineInit /\ [][PipelineNext]_vars

(***************************************************************************)
(* The extraction over every short text around one written block.          *)
(***************************************************************************)
\* whitespace next to a fence is written by the block itself
ExtractAlphabet == { Tok("fence"), Tok("prose"), Tok("lb"), Tok("rb") }

ExtractInit ==
    /\ pc = "parse_ready"
    /\ ParseBase
    /\ file_name = "test.py"
    /\ given = FindingsObject(JArr(<<JObj(<<>>, <<>>)>>))
    /\ wrap \in [pre : SeqsUpTo(ExtractAlphabet, MaxStray),
                fence : {"none", "json", "plain"},
                post : SeqsUpTo(ExtractAlphabet, MaxStray)]
    /\ Len(wrap.pre) + Len(wrap.post) <= MaxStray
    /\ reply = Render(given, wrap)

ExtractNext ==
    \/ ExtractStep
    \/ NormalizeStep

SpecExtract == ExtractInit /\ [][ExtractNext]_vars

(***************************************************************************)
(* _parse_finding entered alone on one item.                               *)
(***************************************************************************)
\* a name with at most MaxCaseFlips letters in upper case, or at most
\* MaxCaseFlips letters in lower case
CaseVariants(name) ==
    { [i \in DOMAIN name |-> IF i \in m THEN UpperChar(name[i]) ELSE name[i]] :
        m \in { u \in SUBSET DOMAIN name :
                  \/ Cardinality(u) <= MaxCaseFlips
                  \/ Cardinality(u) >= Len(name) - MaxCaseFlips } }

sUrgent == <<"u","r","g","e","n","t">>
sStyle == <<"s","t","y","l","e">>

\* values of a JSON reply that are no strings
NonStringValues == { JNull, JNum(3), JObj(<<kLevel>>, <<JStr(sHigh)>>) }

\* a dict from a sequence of [key, val] members
MkItem(members) ==
    JObj([i \in DOMAIN members |-> members[i].key],
         [i \in DOMAIN members |-> members[i].val])

Member(key, val) == [key |-> key, val |-> val]

FindingItems ==
    { MkItem(sv \o ty \o <<Member(kLine, JNum(42)),
                           Member(kMessage, JStr(mNullPointer))>>) :
        sv \in { <<Member(kSeverity, JStr(x))>> : x \in
                 UNION { CaseVariants(n) : n \in Severity }
                   \cup { sUrgent, Upper(sUrgent), <<>>,
                          <<"h","i","g","h"," ">> } }
                 \cup { <<>> },
        ty \in { <<>>, <<Member(kType, JStr(Upper(sBug)))>> } }
    \cup
    { MkItem(sv \o ty \o <<Member(kLine, JNum(42)),
                           Member(kMessage, JStr(mNullPointer))>>) :
        sv \in { <<>>, <<Member(kSeverity, JStr(sHigh))>> },
        ty \in { <<Member(kType, JStr(x))>> : x \in
                 UNION { CaseVariants(n) : n \in FindingType }
                   \cup { sStyle, Upper(sStyle), <<>>,
                          <<"b","u","g","s">> } } }
    \cup
    { MkItem(<<Member(kSeverity, sv), Member(kType, ty),
               Member(kLine, JNum(42)), Member(kMessage, JStr(mNullPointer))>>) :
        sv \in NonStringValues \cup { JStr(sHigh) },
        ty \in NonStringValues \cup { JStr(Upper(sBug)) } }
    \cup
    { MkItem(<<Member(kSeverity, JStr(sHigh)), Member(kType, JStr(Upper(sBug))),
               Member(kLine, JNum(42))>> \o msg) :
        msg \in { <<>>, <<Member(kMessage, JStr(<<>>))>>,
                  <<Member(kMessage, JNull)>>,
                  <<Member(kMessage, JStr(<<" ">>))>> } }

FindingInit ==
    /\ pc = "finding_ready"
    /\ ParseBase
    /\ file_name = "test.py"
    /\ given \in FindingItems
    /\ wrap = NoWrap
    /\ reply = <<>>

\* lines 59-101, called on the item given
ParseFindingStep ==
    /\ pc = "finding_ready"
    /\ LET r == ParseFinding(given, file_name)
       IN  /\ result' = IF r.raised THEN <<>> ELSE <<r.f>>
           /\ raised' = r.raised
    /\ pc' = "finding_done"
    /\ UNCHANGED <<config, prompt, attempt, calls, sleeps, outcomes, given, wrap,
                   reply, locals>>

SpecFinding == FindingInit /\ [][ParseFindingStep]_vars

(***************************************************************************)
(* Properties of the normalizer and the extraction.                        *)
(***************************************************************************)
\* the reply was parsed: by _parse_api_response alone, or inside a call
Parsed ==
    \/ pc = "parse_done"
    \/ pc = "returned" /\ outcomes # <<>> /\ outcomes[Len(outcomes)] = "text"

IsFindingsObject(g) ==
    g.k = "obj" /\ g.keys = <<kFindings>> /\ g.a[1].k = "arr"

\* the Finding the documented mapping gives for an item of GoodItems
ExpectedFinding(item, path) ==
    [type |-> Lower(DictGet(item, kType, JNull).s),
     severity |-> DictGet(item, kSeverity, JNull).s,
     message |-> DictGet(item, kMessage, JNull),
     file_path |-> path,
     line |-> DictGet(item, kLine, JNull),
     remediation |-> JNull]

ExpectedOfGood(a, path) ==
    LET good == SelectSeq(a, LAMBDA x : x \in GoodItems)
    IN  [i \in DOMAIN good |-> ExpectedFinding(good[i], path)]

\* C6: in a findings array each item whose mapping raises is skipped alone:
\* the result is the findings of the well-formed items, in their order.
C6_ItemIsolation ==
    (Parsed /\ IsFindingsObject(given)) =>
        /\ ~raised
        /\ result = ExpectedOfGood(given.a[1].a, file_name)

C6_Witness ==
    /\ pc = "parse_done"
    /\ IsFindingsObject(given)
    /\ Len(given.a[1].a) = 3
    /\ given.a[1].a[1] \in GoodItems
    /\ given.a[1].a[2] \in BadItems /\ given.a[1].a[2].k = "obj"
    /\ given.a[1].a[3] \in GoodItems
    /\ given.a[1].a[1] # given.a[1].a[3]
    /\ Len(result) = 2

\* a equals name up to the case of each letter
EqualIgnoringCase(a, name) ==
    /\ Len(a) = Len(name)
    /\ \A i \in DOMAIN name : a[i] \in {name[i], UpperChar(name[i])}

HasKey(d, key) == \E i \in DOMAIN d.keys : d.keys[i] = key

\* the key is absent from the item, or its value is a string
TextOrMissing(d, key) ==
    ~HasKey(d, key) \/ DictGet(d, key, JNull).k = "str"

\* C7: a severity string that is an enum name in any letter case maps to
\* that severity, any other string and a missing severity to medium; the
\* same for the type, with quality as the default; a finding is produced.
C7_EnumMapping ==
    (pc = "finding_done"
       /\ TextOrMissing(given, kSeverity)
       /\ TextOrMissing(given, kType)) =>
        /\ ~raised
        /\ Len(result) = 1
        /\ \A name \in Severity :
              (HasKey(given, kSeverity)
                 /\ EqualIgnoringCase(DictGet(given, kSeverity, JNull).s, name))
              => result[1].severity = name
        /\ (~HasKey(given, kSeverity)
              \/ \A name \in Severity :
                   ~EqualIgnoringCase(DictGet(given, kSeverity, JNull).s, name))
           => result[1].severity = sMedium
        /\ \A name \in FindingType :
              (HasKey(given, kType)
                 /\ EqualIgnoringCase(DictGet(given, kType, JNull).s, name))
              => result[1].type = name
        /\ (~HasKey(given, kType)
              \/ \A name \in FindingType :
                   ~EqualIgnoringCase(DictGet(given, kType, JNull).s, name))
           => result[1].type = sQuality

C7_Witness ==
    /\ pc = "finding_done"
    /\ DictGet(given, kSeverity, JNull) = JStr(<<"C","r","i","t","i","c","a","l">>)
    /\ ~HasKey(given, kType)
    /\ result[1].severity = sCritical
    /\ result[1].type = sQuality

FenceCount(text) == Cardinality({ i \in DOMAIN text : text[i].t = "fence" })

HasBrace(text) == \E i \in DOMAIN text : text[i].t \in {"lb", "rb"}

\* the span lies inside a fenced block: an odd number of fences before it,
\* none within it
InsideFence(text, sp) ==
    /\ FenceCount(SubSeq(text, 1, sp.from - 1)) % 2 = 1
    /\ FenceCount(SubSeq(text, sp.from, sp.to)) = 0

\* C8: when the reply holds a fenced block (json-tagged or untagged) with an
\* object in it and braces outside the fence, the text handed to json.loads
\* is the object of a fenced block, not a span outside the fences.
C8_FencedPrecedence ==
    (pc \in {"extracted", "parse_done"}
       /\ wrap.fence # "none"
       /\ FenceCount(wrap.pre) % 2 = 0
       /\ (HasBrace(wrap.pre) \/ HasBrace(wrap.post)))
    => /\ json_match.how = "fence"
       /\ InsideFence(reply, json_match)
       /\ response = SubSeq(reply, json_match.from, json_match.to)

\* C9: an object reply with a findings array of N well-formed items gives
\* exactly N findings in array order, finding i with the kind, severity,
\* message and line of item i and the given file path.
C9_ObjectReply ==
    (Parsed /\ IsFindingsObject(given)
       /\ \A i \in DOMAIN given.a[1].a : given.a[1].a[i] \in GoodItems)
    => /\ ~raised
       /\ Len(result) = Len(given.a[1].a)
       /\ \A i \in DOMAIN result :
            LET item == given.a[1].a[i]
            IN  /\ Upper(result[i].type) = DictGet(item, kType, JNull).s
                /\ result[i].type \in FindingType
                /\ result[i].severity = DictGet(item, kSeverity, JNull).s
                /\ result[i].message = DictGet(item, kMessage, JNull)
                /\ result[i].line = DictGet(item, kLine, JNull)
                /\ result[i].file_path = file_name

C9_Witness ==
    /\ pc = "parse_done"
    /\ IsFindingsObject(given)
    /\ Len(given.a[1].a) = 3
    /\ \A i \in 1..3 : given.a[1].a[i] \in GoodItems
    /\ given.a[1].a[1] # given.a[1].a[2]
    /\ Len(result) = 3

\* C10: a reply that is a bare array of N well-formed items gives those N
\* findings in order, like the object form.
C10_BareArray ==
    (pc = "parse_done" /\ given.k = "arr"
       /\ \A i \in DOMAIN given.a : given.a[i] \in GoodItems)
    => /\ ~raised
       /\ result = ExpectedOfGood(given.a, file_name)

\* the text is no JSON, or JSON whose top-level value is no object and no
\* array
Malformed(text) ==
    ~Loads(text).ok \/ Loads(text).v.k \notin {"obj", "arr"}

\* C11: when the extracted text is not valid JSON, or its top-level value
\* is neither an object nor an array, _parse_api_response returns [] and
\* raises nothing, and analyze_code returns [] for that call.
C11_MalformedAbsorbed ==
    /\ (pc = "parse_done" /\ Malformed(response))
         => ~raised /\ result = <<>>
    /\ (pc = "returned" /\ outcomes # <<>>
          /\ outcomes[Len(outcomes)] = "text" /\ Malformed(Extract(reply)))
         => ~raised /\ result = <<>>

C11_Witness ==
    /\ pc = "parse_done"
    /\ ~Loads(response).ok
    /\ HasBrace(response)
    /\ given.k = "arr"

\* C19: once a call has returned a reply with content, analyze_code makes
\* no further call and no sleep, whatever the reply contains.
C19_ReplyNeverRetried ==
    \A i \in DOMAIN outcomes :
        outcomes[i] \in {"text", "parse_error"} =>
            /\ calls = i
            /\ Len(sleeps) = i - 1
            /\ pc = "returned"

\* C20: a finding item whose severity is present but not a string is
\* normalized to a finding of severity medium, one whose type is present but
\* not a string to a finding of kind quality; the item is not dropped.
C20_NonStringDefaults ==
    pc = "finding_done" =>
        /\ (HasKey(given, kSeverity)
              /\ DictGet(given, kSeverity, JNull).k # "str"
              /\ TextOrMissing(given, kType))
           => /\ ~raised
              /\ Len(result) = 1
              /\ result[1].severity = sMedium
        /\ (HasKey(given, kType)
              /\ DictGet(given, kType, JNull).k # "str"
              /\ TextOrMissing(given, kSeverity))
           => /\ ~raised
              /\ Len(result) = 1
              /\ result[1].type = sQuality

(***************************************************************************)
(* get_prompt called alone.                                                *)
(***************************************************************************)
pPerformance == <<"p","e","r","f","o","r","m","a","n","c","e">>

\* the four names in mixed case, and strings that are no name in any case
PromptInit ==
    /\ pc = "prompt_ready"
    /\ max_retries = 3
    /\ code \in { <<>>, <<"x">> }
    /\ language \in Languages
    /\ file_name \in FileNames
    /\ analysis_type \in
          UNION { CaseVariants(n) : n \in PromptNames }
              \cup { pPerformance, Upper(pPerformance), <<>>, sBug,
                     <<"s","e","c","u","r","i","t","y"," ">> }
    /\ prompt = NoPrompt
    /\ Constructed
    /\ NoWalk
    /\ NoServer
    /\ NoReport
    /\ attempt = 0
    /\ calls = 0
    /\ sleeps = <<>>
    /\ outcomes = <<>>
    /\ given = JNull
    /\ wrap = NoWrap
    /\ reply = <<>>
    /\ response = <<>>
    /\ json_match = NoMatchSpan
    /\ result = <<>>
    /\ raised = FALSE

\* prompts.py lines 244-264
GetPromptStep ==
    /\ pc = "prompt_ready"
    /\ prompt' = get_prompt(analysis_type, file_name, code, language)
    /\ pc' = "prompt_done"
    /\ UNCHANGED <<config, attempt, calls, sleeps, outcomes, given, wrap,
                   reply, locals, result, raised>>

SpecPrompt == PromptInit /\ [][GetPromptStep]_vars

\* C17 as stated: the four names select their template, and every other
\* string gives the comprehensive prompt for the same file_name, code and
\* language.
C17_AsStated ==
    pc = "prompt_done" =>
        /\ ~raised
        /\ prompt.file_name = file_name
        /\ prompt.code = code
        /\ prompt.language = language
        /\ analysis_type \in {pSecurity, pBugs, pQuality, pComprehensive}
             => prompt.template = analysis_type
        /\ analysis_type \notin {pSecurity, pBugs, pQuality, pComprehensive}
             => prompt.template = pComprehensive

\* C17 (amended): an analysis_type that equals one of the four names up to
\* the case of its letters selects that name's template; every other string
\* gives the comprehensive prompt; the prompt is built from the same
\* file_name, code and language, and nothing is raised.
C17_CaseInsensitive ==
    pc = "prompt_done" =>
        /\ ~raised
        /\ prompt.file_name = file_name
        /\ prompt.code = code
        /\ prompt.language = language
        /\ \A name \in {pSecurity, pBugs, pQuality, pComprehensive} :
             EqualIgnoringCase(analysis_type, name)
               => prompt.template = name
        /\ (\A name \in {pSecurity, pBugs, pQuality, pComprehensive} :
              ~EqualIgnoringCase(analysis_type, name))
             => prompt.template = pComprehensive

C17_Witness ==
    /\ pc = "prompt_done"
    /\ analysis_type = <<"S","e","c","u","r","i","t","y">>
    /\ prompt.template = pSecurity
    /\ prompt.code = <<"x">>

(***************************************************************************)
(* CodeAnalyzer(...) followed by analyze_code on the analyzer built.       *)
(***************************************************************************)

CtorInit ==
    /\ pc = "new"
    /\ api_key \in {NoneValue, "", "sk-arg"}
    /\ env_api_key \in {NoneValue, "", "sk-env"}
    /\ self_api_key = NoneValue
    /\ client = NoneValue
    /\ max_retries \in 0..MaxRetriesBound
    /\ code = <<"x">>
    /\ language = "python"
    /\ file_name = "test.py"
    /\ analysis_type = pComprehensive
    /\ prompt = NoPrompt
    /\ NoWalk
    /\ NoServer
    /\ NoReport
    /\ attempt = 0
    /\ calls = 0
    /\ sleeps = <<>>
    /\ outcomes = <<>>
    /\ given = JNull
    /\ wrap = NoWrap
    /\ reply = <<>>
    /\ response = <<>>
    /\ json_match = NoMatchSpan
    /\ result = <<>>
    /\ raised = FALSE

\* analyzer.py lines 38-47
Construct ==
    /\ pc = "new"
    /\ self_api_key' = Credential(api_key, env_api_key)
    /\ IF ~Truthy(self_api_key')
       THEN /\ pc' = "ctor_raised"
            /\ raised' = TRUE
            /\ client' = client
       ELSE /\ pc' = "ready"
            /\ raised' = FALSE
            /\ client' = self_api_key'
    /\ UNCHANGED <<server, max_retries, code, language, file_name, analysis_type,
                   api_key, env_api_key, walk, reporting, prompt, attempt,
                   calls, sleeps, outcomes, given, wrap, reply, locals,
                   result>>

CtorNext ==
    \/ Construct
    \/ Next

SpecCtor == CtorInit /\ [][CtorNext]_vars

\* C15: with no api_key argument and no ANTHROPIC_API_KEY in the
\* environment the constructor raises ValueError, no client is created and
\* no external call is ever made; with a credential (argument or
\* environment) construction succeeds with a client made from it.
C15_MissingCredential ==
    /\ (pc # "new" /\ api_key = NoneValue /\ env_api_key = NoneValue)
         => /\ pc = "ctor_raised"
            /\ raised
            /\ client = NoneValue
            /\ calls = 0
    /\ (pc # "new" /\ (api_key = "sk-arg" \/ env_api_key = "sk-env"))
         => /\ pc # "ctor_raised"
            /\ client \in {"sk-arg", "sk-env"}
            /\ client = self_api_key
    /\ pc = "new" => client = NoneValue /\ calls = 0

C15_Witness ==
    /\ pc = "ctor_raised"
    /\ api_key = NoneValue
    /\ env_api_key = NoneValue
    /\ client = NoneValue

(***************************************************************************)
(* BaseReporter.filter_findings (src/reporters/base.py), as every          *)
(* reporter's generate calls it first.                                     *)
(***************************************************************************)
\* severity_order.get(sev, 4)
SeverityOrderGet(sev) ==
    CASE sev = sCritical -> 0
      [] sev = sHigh -> 1
      [] sev = sMedium -> 2
      [] sev = sLow -> 3
      [] sev = sInfo -> 4
      [] OTHER -> 4

\* mutant: findings of the threshold severity itself are left out
filter_findings_strict(res, m) ==
    IF m = NoSeverity
    THEN res
    ELSE [res EXCEPT !.findings =
            SelectSeq(res.findings,
                      LAMBDA f : SeverityOrderGet(f.severity)
                                   < SeverityOrderGet(m))]

\* lines 28-54: the result itself without a threshold, else a new
\* AnalysisResult with the findings kept and the other fields copied
filter_findings(res, m) ==
    IF m = NoSeverity
    THEN res
    ELSE [res EXCEPT !.findings =
            SelectSeq(res.findings,
                      LAMBDA f : SeverityOrderGet(f.severity)
                                   <= SeverityOrderGet(m))]

\* a finding of each severity, as _parse_finding builds them
ReportFindings ==
    { ParseFinding(Item(Upper(sBug), JStr(sev), 5, mNullPointer),
                   "test.py").f :
        sev \in Severity }

\* analyze_code is not running
NoCall ==
    /\ attempt = 0
    /\ calls = 0
    /\ sleeps = <<>>
    /\ outcomes = <<>>
    /\ given = JNull
    /\ wrap = NoWrap
    /\ reply = <<>>
    /\ response = <<>>
    /\ json_match = NoMatchSpan
    /\ result = <<>>
    /\ raised = FALSE
    /\ prompt = NoPrompt

ReportInit ==
    /\ pc = "report_ready"
    /\ max_retries = 3
    /\ code = <<>>
    /\ language = "python"
    /\ file_name = "test.py"
    /\ analysis_type = pComprehensive
    /\ Constructed
    /\ NoWalk
    /\ NoServer
    /\ NoCall
    /\ \E fs \in SeqsUpTo(ReportFindings, MaxItems) :
         analysis = AnalysisResult(fs, 1, 10, pComprehensive)
    /\ min_severity \in Severity \cup {NoSeverity}
    /\ report = NoAnalysis

\* mutant: the input's findings list is filtered in place
FilterFindingsInPlace ==
    /\ pc = "report_ready"
    /\ report' = filter_findings(analysis, min_severity)
    /\ analysis' = report'
    /\ pc' = "report_done"
    /\ UNCHANGED <<server, max_retries, code, language, file_name, analysis_type,
                   credentials, walk, min_severity, prompt,
                   attempt, calls, sleeps, outcomes, given, wrap, reply,
                   locals, result, raised>>

\* filtered_result = self.filter_findings(result)
FilterFindingsStep ==
    /\ pc = "report_ready"
    /\ report' = filter_findings(analysis, min_severity)
    /\ pc' = "report_done"
    /\ UNCHANGED <<server, max_retries, code, language, file_name, analysis_type,
                   credentials, walk, analysis, min_severity, prompt,
                   attempt, calls, sleeps, outcomes, given, wrap, reply,
                   locals, result, raised>>

SpecReport == ReportInit /\ [][FilterFindingsStep]_vars

\* the rank of a severity under critical > high > medium > low > info
SeverityRank(sev) ==
    CASE sev = sCritical -> 5
      [] sev = sHigh -> 4
      [] sev = sMedium -> 3
      [] sev = sLow -> 2
      [] sev = sInfo -> 1

\* C16: a reporter with min_severity m reports exactly the findings whose
\* severity is m or higher under critical > high > medium > low > info, in
\* their original order; a reporter without min_severity reports them all.
C16_SeverityFilter ==
    pc = "report_done" =>
        /\ min_severity = NoSeverity => report.findings = analysis.findings
        /\ min_severity # NoSeverity =>
             report.findings =
               SelectSeq(analysis.findings,
                         LAMBDA f : SeverityRank(f.severity)
                                      >= SeverityRank(min_severity))

C16_Witness ==
    /\ pc = "report_done"
    /\ min_severity = sHigh
    /\ Len(analysis.findings) = 3
    /\ analysis.findings[1].severity = sLow
    /\ analysis.findings[2].severity = sCritical
    /\ analysis.findings[3].severity = sHigh
    /\ Len(report.findings) = 2
    /\ report.findings[1].severity = sCritical

(***************************************************************************)
(* analyze_directory (analyzer.py lines 219-287) over the files the parser *)
(* found; analyze_code runs inside it, step by step, for each file the     *)
(* parser returned data for.                                               *)
(***************************************************************************)
\* the paths get_files_to_analyze returns, one per file

\* the content of the i-th file: i lines
DirContent(i) ==
    [j \in 1..(2 * i - 1) |-> IF j % 2 = 1 THEN "x" ELSE "\n"]

\* what parser.analyze_file does with a file: raises, returns None, or
\* returns the file's data

DirFiles ==
    UNION { { [i \in 1..n |-> [path |-> <<"a.py", "b.py", "c.py", "d.py", "e.py">>[i], parse |-> k[i],
                               content |-> DirContent(i)]] :
                k \in [1..n -> {"raises", "none", "data"}] } : n \in 0..MaxFiles }

\* len(content.splitlines()), the line_count of parser.analyze_file
SplitLinesCount(c) ==
    Cardinality({ j \in DOMAIN c : c[j] = "\n" })
        + (IF c # <<>> /\ c[Len(c)] # "\n" THEN 1 ELSE 0)

\* mutant: the findings of a file are put before those of earlier files
ExtendFront(list, items) == items \o list

\* all_findings.extend(findings)
Extend(list, items) == list \o items

\* mutant: the loop goes on while the call for the file is asleep
ReturnedOrAsleep(p) == p \in {"returned", "sleeping"}

\* findings = self.analyze_code(...): the statement after it runs once
\* analyze_code has returned
Returned(p) == p = "returned"

\* what became of a file of the loop
Visit(path, status, fs, lines) ==
    [path |-> path, status |-> status, findings |-> fs, line_count |-> lines]

DirInit ==
    /\ pc = "dir"
    /\ max_retries = 3
    /\ code = <<>>
    /\ language = "python"
    /\ file_name = "unknown"
    /\ analysis_type = pComprehensive
    /\ Constructed
    /\ NoCall
    /\ NoReport
    /\ NoServer
    /\ dir_pc = "loop"
    /\ files \in DirFiles
    /\ file_index = 1
    /\ all_findings = <<>>
    /\ files_analyzed = 0
    /\ total_lines = 0
    /\ visited = <<>>

\* analyze_code's variables and the caller's arguments, left alone
callvars == <<attempt, calls, sleeps, outcomes, given, wrap, reply, locals,
              result, raised, prompt>>

\* mutant: the exception leaves analyze_directory
FileRaisesAborts ==
    /\ dir_pc = "loop"
    /\ file_index <= Len(files)
    /\ files[file_index].parse = "raises"
    /\ visited' = Append(visited,
            Visit(files[file_index].path, "exception", <<>>, 0))
    /\ dir_pc' = "done"
    /\ raised' = TRUE
    /\ UNCHANGED <<server, pc, max_retries, code, language, file_name, analysis_type,
                   credentials, reporting, files, file_index, all_findings,
                   files_analyzed, total_lines, attempt, calls, sleeps,
                   outcomes, given, wrap, reply, locals, result, prompt>>

\* lines 251-252 and 272-273: parser.analyze_file raises, the handler logs
FileRaises ==
    /\ dir_pc = "loop"
    /\ file_index <= Len(files)
    /\ files[file_index].parse = "raises"
    /\ visited' = Append(visited,
            Visit(files[file_index].path, "exception", <<>>, 0))
    /\ file_index' = file_index + 1
    /\ UNCHANGED <<server, pc, max_retries, code, language, file_name, analysis_type,
                   credentials, reporting, dir_pc, files, all_findings,
                   files_analyzed, total_lines, callvars>>

\* mutant: a file without data is counted as analyzed
FileSkippedCounted ==
    /\ dir_pc = "loop"
    /\ file_index <= Len(files)
    /\ files[file_index].parse = "none"
    /\ visited' = Append(visited,
            Visit(files[file_index].path, "none", <<>>, 0))
    /\ file_index' = file_index + 1
    /\ files_analyzed' = files_analyzed + 1
    /\ UNCHANGED <<server, pc, max_retries, code, language, file_name, analysis_type,
                   credentials, reporting, dir_pc, files, all_findings,
                   total_lines, callvars>>

\* lines 252-254: no file data, continue
FileSkipped ==
    /\ dir_pc = "loop"
    /\ file_index <= Len(files)
    /\ files[file_index].parse = "none"
    /\ visited' = Append(visited,
            Visit(files[file_index].path, "none", <<>>, 0))
    /\ file_index' = file_index + 1
    /\ UNCHANGED <<server, pc, max_retries, code, language, file_name, analysis_type,
                   credentials, reporting, dir_pc, files, all_findings,
                   files_analyzed, total_lines, callvars>>

\* lines 252 and 256-261: file data returned, analyze_code entered
FileEnter ==
    /\ dir_pc = "loop"
    /\ file_index <= Len(files)
    /\ files[file_index].parse = "data"
    /\ code' = files[file_index].content
    /\ language' = "python"
    /\ file_name' = files[file_index].path
    /\ pc' = "ready"
    /\ dir_pc' = "in_call"
    /\ UNCHANGED <<server, max_retries, analysis_type, credentials, reporting, files,
                   file_index, all_findings, files_analyzed, total_lines,
                   visited, callvars>>

\* lines 263-265 once analyze_code has returned, whose locals are gone
FileCollect ==
    /\ dir_pc = "in_call"
    /\ Returned(pc)
    /\ all_findings' = Extend(all_findings, result)
    /\ files_analyzed' = files_analyzed + 1
    /\ total_lines' = total_lines + SplitLinesCount(code)
    /\ visited' = Append(visited,
            Visit(file_name, "analyzed", result, SplitLinesCount(code)))
    /\ file_index' = file_index + 1
    /\ dir_pc' = "loop"
    /\ pc' = "dir"
    /\ attempt' = 0
    /\ calls' = 0
    /\ sleeps' = <<>>
    /\ outcomes' = <<>>
    /\ given' = JNull
    /\ wrap' = NoWrap
    /\ reply' = <<>>
    /\ result' = <<>>
    /\ prompt' = NoPrompt
    /\ UNCHANGED <<server, max_retries, code, language, file_name, analysis_type,
                   credentials, reporting, files, locals, raised>>

\* lines 275-287 after the loop
DirFinish ==
    /\ dir_pc = "loop"
    /\ file_index > Len(files)
    /\ analysis' = AnalysisResult(all_findings, files_analyzed, total_lines,
                                  analysis_type)
    /\ dir_pc' = "done"
    /\ UNCHANGED <<server, pc, max_retries, code, language, file_name, analysis_type,
                   credentials, files, file_index, all_findings,
                   files_analyzed, total_lines, visited, min_severity,
                   report, callvars>>

DirNext ==
    \/ FileRaises
    \/ FileSkipped
    \/ FileEnter
    \/ Next
    \/ FileCollect
    \/ DirFinish

SpecDir == DirInit /\ [][DirNext]_vars

(***************************************************************************)
(* AnalysisResult.get_summary (findings.py lines 96-126).                  *)
(***************************************************************************)
\* mutant: the findings of that severity or a higher one
get_findings_at_least(res, severity) ==
    SelectSeq(res.findings,
              LAMBDA f : SeverityOrderGet(f.severity)
                           <= SeverityOrderGet(severity))

\* [f for f in self.findings if f.severity == severity]
get_findings_by_severity(res, severity) ==
    SelectSeq(res.findings, LAMBDA f : f.severity = severity)

\* [f for f in self.findings if f.type == finding_type]
get_findings_by_type(res, finding_type) ==
    SelectSeq(res.findings, LAMBDA f : f.type = finding_type)

get_summary(res) ==
    [total_findings |-> Len(res.findings),
     findings_by_severity |->
        [sev \in Severity |-> Len(get_findings_by_severity(res, sev))],
     findings_by_type |->
        [ft \in FindingType |-> Len(get_findings_by_type(res, ft))],
     files_analyzed |-> res.files_analyzed,
     total_lines |-> res.total_lines,
     analysis_time_seconds |-> res.analysis_time_seconds,
     timestamp |-> res.timestamp]

(***************************************************************************)
(* Properties of analyze_directory and of the summary.                     *)
(***************************************************************************)
RECURSIVE ConcatFindings(_)
\* the finding sequences analyze_code returned, file after file
ConcatFindings(v) ==
    IF v = <<>> THEN <<>>
    ELSE ConcatFindings(SubSeq(v, 1, Len(v) - 1)) \o v[Len(v)].findings

RECURSIVE SumOfCounts(_)
\* the sum of the per-file finding counts
SumOfCounts(v) ==
    IF v = <<>> THEN 0
    ELSE SumOfCounts(SubSeq(v, 1, Len(v) - 1)) + Len(v[Len(v)].findings)

\* C12: after analyze_directory the summary's total_findings is the sum of
\* the per-file finding counts returned by analyze_code, and the five
\* findings_by_severity counts and the five findings_by_type counts each
\* sum to total_findings.
C12_Aggregation ==
    dir_pc = "done" =>
        LET sm == get_summary(analysis)
        IN  /\ sm.total_findings = SumOfCounts(visited)
            /\ DOMAIN sm.findings_by_severity
                 = {sCritical, sHigh, sMedium, sLow, sInfo}
            /\ sm.findings_by_severity[sCritical]
                 + sm.findings_by_severity[sHigh]
                 + sm.findings_by_severity[sMedium]
                 + sm.findings_by_severity[sLow]
                 + sm.findings_by_severity[sInfo] = sm.total_findings
            /\ DOMAIN sm.findings_by_type
                 = {sSecurity, sBug, sQuality, sPerformance, sAccessibility}
            /\ sm.findings_by_type[sSecurity]
                 + sm.findings_by_type[sBug]
                 + sm.findings_by_type[sQuality]
                 + sm.findings_by_type[sPerformance]
                 + sm.findings_by_type[sAccessibility] = sm.total_findings

C12_Witness ==
    /\ dir_pc = "done"
    /\ Len(visited) = 3
    /\ Len(visited[1].findings) = 3
    /\ Len(visited[2].findings) = 0
    /\ Len(visited[3].findings) = 1
    /\ get_summary(analysis).total_findings = 4
    /\ get_summary(analysis).findings_by_severity[sLow] = 2
    /\ get_summary(analysis).findings_by_type[sSecurity] = 1

\* C13: the findings of the AnalysisResult are the per-file finding
\* sequences concatenated in the order the files were processed, duplicates
\* kept and nothing re-sorted; the accumulator is that concatenation after
\* every file.
C13_Concatenation ==
    /\ all_findings = ConcatFindings(visited)
    /\ dir_pc = "done" =>
         /\ analysis.findings = ConcatFindings(visited)
         /\ \A i \in DOMAIN visited :
              visited[i].status = "analyzed" =>
                \A j \in DOMAIN visited[i].findings :
                    visited[i].findings[j].file_path = files[i].path

C13_Witness ==
    /\ dir_pc = "done"
    /\ Len(visited) = 2
    /\ Len(visited[1].findings) = 3
    /\ visited[1].findings[1] = visited[1].findings[3]
    /\ Len(visited[2].findings) = 1
    /\ analysis.findings[1].severity = sLow
    /\ analysis.findings[2].severity = sHigh
    /\ analysis.findings[3] = analysis.findings[1]
    /\ analysis.findings[4].severity = sCritical
    /\ analysis.findings[4].file_path = "b.py"

\* C14: a file whose processing raises, or for which the parser returns
\* nothing, leaves the findings accumulated so far unchanged and the loop
\* running; every file is visited in turn, each file the parser returned
\* data for is analyzed, and analyze_directory returns an AnalysisResult
\* without raising.
C14_FileIsolation ==
    /\ [](/\ ~raised
          /\ dir_pc # "done" => ENABLED DirNext
          /\ Len(visited) <= Len(files)
          /\ \A i \in DOMAIN visited :
               /\ visited[i].path = files[i].path
               /\ files[i].parse = "data" <=> visited[i].status = "analyzed"
          /\ dir_pc = "done" =>
               /\ Len(visited) = Len(files)
               /\ analysis.findings = all_findings)
    /\ [][(Len(visited') = Len(visited) + 1
            /\ files[Len(visited')].parse # "data")
          => /\ all_findings' = all_findings
             /\ files_analyzed' = files_analyzed
             /\ dir_pc' = "loop"
             /\ file_index' = file_index + 1]_vars

C14_Witness ==
    /\ dir_pc = "done"
    /\ Len(files) = 3
    /\ files[1].parse = "data"
    /\ files[2].parse = "raises"
    /\ files[3].parse = "data"
    /\ Len(visited[1].findings) = 1
    /\ Len(visited[3].findings) = 3
    /\ Len(analysis.findings) = 4
    /\ ~raised

\* the positions of the opening and of the closing braces of a text
OpeningBraces(text) == { i \in DOMAIN text : text[i].t = "lb" }
ClosingBraces(text) == { i \in DOMAIN text : text[i].t = "rb" }

\* every token of the text is prose
ProseOnly(text) == \A i \in DOMAIN text : text[i].t = "prose"

\* C21: when no fenced {...} block is found, the text handed to json.loads
\* is the span from the first '{' to the last '}' of the reply, and a
\* findings object with brace-free prose around it yields all its findings.
C21_GreedyFallback ==
    /\ (pc \in {"extracted", "parse_done"} /\ FenceCount(reply) < 2)
         => json_match.how # "fence"
    /\ (pc \in {"extracted", "parse_done"} /\ json_match.how # "fence")
         => /\ \A i \in OpeningBraces(reply) : i >= json_match.from
            /\ \A i \in ClosingBraces(reply) : i <= json_match.to
            /\ json_match.from \in OpeningBraces(reply)
            /\ json_match.to \in ClosingBraces(reply)
            /\ response = SubSeq(reply, json_match.from, json_match.to)
    /\ (pc = "parse_done" /\ wrap.fence = "none"
          /\ ProseOnly(wrap.pre) /\ ProseOnly(wrap.post))
         => /\ ~raised
            /\ response = Dumps(given)
            /\ Len(result) = Len(given.a[1].a)

C21_Witness ==
    /\ pc = "parse_done"
    /\ wrap.fence = "none"
    /\ Len(wrap.pre) = 2
    /\ Len(wrap.post) = 2
    /\ ProseOnly(wrap.pre)
    /\ ProseOnly(wrap.post)
    /\ json_match.how = "object"
    /\ Len(result) = 1

\* C22: within one analyze_directory run analyze_code works on one file at
\* a time, the file after those already visited; a call is issued only
\* when none is outstanding, and the loop moves past a file the parser
\* returned data for only when its analyze_code has returned.
C22_Sequential ==
    /\ [](/\ pc \in {"ready", "loop", "calling", "sleeping", "returned"}
             => /\ dir_pc = "in_call"
                /\ file_index = Len(visited) + 1
                /\ file_name = files[file_index].path
          /\ dir_pc # "in_call" => pc = "dir"
          /\ calls <= max_retries)
    /\ [][/\ calls' > calls
             => /\ calls' = calls + 1
                /\ pc # "calling"
                /\ pc' = "calling"
                /\ dir_pc = "in_call"
                /\ file_name = files[Len(visited) + 1].path
          /\ (Len(visited') > Len(visited)
                /\ files[Len(visited')].parse = "data")
             => /\ pc = "returned"
                /\ pc' = "dir"
                /\ dir_pc' = "loop"]_vars

C22_Witness ==
    /\ dir_pc = "in_call"
    /\ pc = "calling"
    /\ file_index = 2
    /\ attempt = 1
    /\ sleeps = <<1>>
    /\ Len(visited) = 1
    /\ visited[1].status = "analyzed"
    /\ Len(visited[1].findings) = 1
    /\ Len(files) = 3

\* the indices of the visited files analyze_code returned for
Analyzed(v) == { i \in DOMAIN v : v[i].status = "analyzed" }

\* the number of lines of a file's content: its "x" characters, one a line
LinesOf(c) == Cardinality({ j \in DOMAIN c : c[j] = "x" })

RECURSIVE SumOfLines(_, _)
\* the sum of the line counts of the files at the indices S
SumOfLines(fs, S) ==
    IF S = {} THEN 0
    ELSE LET i == CHOOSE j \in S : TRUE
         IN  LinesOf(fs[i].content) + SumOfLines(fs, S \ {i})

\* C30: files_analyzed is the number of files the parser returned data for
\* and analyze_code returned for, whatever it returned; total_lines is the
\* sum of their line counts; a skipped file adds nothing to the findings or
\* to the counters; both counters are non-negative and files_analyzed is at
\* most the number of files found.
C30_Counters ==
    /\ [](/\ files_analyzed = Cardinality(Analyzed(visited))
          /\ total_lines = SumOfLines(files, Analyzed(visited))
          /\ \A i \in DOMAIN visited :
               /\ files[i].parse = "data" <=> i \in Analyzed(visited)
               /\ i \notin Analyzed(visited) => visited[i].findings = <<>>
          /\ files_analyzed >= 0
          /\ total_lines >= 0
          /\ files_analyzed <= Len(files)
          /\ dir_pc = "done" =>
               /\ analysis.files_analyzed = files_analyzed
               /\ analysis.total_lines = total_lines
               /\ files_analyzed
                    = Cardinality({ i \in DOMAIN files :
                                      files[i].parse = "data" }))
    /\ [][/\ (dir_pc = "in_call" /\ pc = "returned")
             => /\ files_analyzed' = files_analyzed + 1
                /\ total_lines' = total_lines + LinesOf(code)
          /\ (Len(visited') > Len(visited)
                /\ files[Len(visited')].parse # "data")
             => /\ files_analyzed' = files_analyzed
                /\ total_lines' = total_lines
                /\ all_findings' = all_findings]_vars

\* two files analyzed, one of them after three failed calls, one skipped
C30_Witness ==
    /\ dir_pc = "in_call"
    /\ pc = "returned"
    /\ outcomes = <<"exception", "exception", "exception">>
    /\ result = <<>>
    /\ Len(files) = 3
    /\ files[2].parse = "none"
    /\ file_index = 3
    /\ files_analyzed = 1
    /\ total_lines = 1
    /\ Len(all_findings) = 3

\* C24: analyze_code eventually returns to its caller, after at most
\* max_retries calls and, if it slept at all, at most max_retries - 1
\* sleeps; it returns only for blank code, after a call that was handled
\* without an exception, or when the loop has used up its attempts.
C24_Terminates ==
    /\ <>(pc = "returned")
    /\ [](/\ calls <= max_retries
          /\ sleeps # <<>> => Len(sleeps) <= max_retries - 1
          /\ pc = "returned" =>
               \/ WhitespaceOnly(code) /\ calls = 0
               \/ /\ outcomes # <<>>
                  /\ outcomes[Len(outcomes)] \in {"text", "empty"}
               \/ /\ calls = max_retries
                  /\ Len(outcomes) = calls
                  /\ \A i \in DOMAIN outcomes :
                       outcomes[i] \in {"exception", "parse_error"})

C24_Witness ==
    /\ pc = "returned"
    /\ max_retries = 4
    /\ calls = 4
    /\ sleeps = <<1, 2, 4>>
    /\ outcomes = <<"exception", "exception", "exception", "empty">>

\* C25: every Finding the normalizer produces has a non-empty message: an
\* item without a message gets "Unknown issue", and an item whose message
\* is the empty string or null yields no finding with an empty or absent
\* message.
C25_MessageNonEmpty ==
    (pc = "finding_done" /\ ~raised) =>
        /\ Len(result) = 1
        /\ result[1].message.k = "str"
        /\ result[1].message.s # <<>>
        /\ ~HasKey(given, kMessage)
             => result[1].message = JStr(sUnknownIssue)

\* C26: filter_findings leaves the input AnalysisResult as it was, every
\* finding it reports is a finding of the input with all its fields, and
\* the filtered result has the input's files_analyzed, total_lines, elapsed
\* time, timestamp and metadata.
C26_NoMutation ==
    /\ [][analysis' = analysis]_vars
    /\ [](pc = "report_done" =>
            /\ report.files_analyzed = analysis.files_analyzed
            /\ report.total_lines = analysis.total_lines
            /\ report.analysis_time_seconds = analysis.analysis_time_seconds
            /\ report.timestamp = analysis.timestamp
            /\ report.metadata = analysis.metadata
            /\ \A i \in DOMAIN report.findings :
                 \E j \in DOMAIN analysis.findings :
                    report.findings[i] = analysis.findings[j])

C26_Witness ==
    /\ pc = "report_done"
    /\ min_severity = sMedium
    /\ Len(analysis.findings) = 3
    /\ analysis.findings[1].severity = sInfo
    /\ analysis.findings[3].severity = sLow
    /\ Len(report.findings) = 1
    /\ report.findings[1] = analysis.findings[2]
    /\ report.total_lines = 10

\* C27: the maximum retry count is validated at construction: no analyzer
\* is built with max_retries <= 0, and for non-blank code analyze_code has
\* issued at least one external call when it returns.
C27_RetriesValidated ==
    /\ (pc \notin {"new", "ctor_raised"}) => max_retries >= 1
    /\ (pc = "returned" /\ ~WhitespaceOnly(code)) => calls >= 1

(***************************************************************************)
(* RateLimitMiddleware (src/api/middleware.py lines 14-50).  dispatch is a *)
(* coroutine on the server's event loop: lines 24-46 hold no await, so     *)
(* they run as one step; at the await of call_next the request is handed   *)
(* downstream.                                                             *)
(***************************************************************************)
\* current_time - req_time < 60
WindowSeconds == 60

\* the paths of the two kinds of handler

\* the seconds that pass between two steps of the server

\* mutant: a request exactly 60 seconds old is kept
CleanOldInclusive(times, current_time) ==
    SelectSeq(times, LAMBDA t : current_time - t <= WindowSeconds)

\* lines 28-32: the request times younger than a minute
CleanOld(times, current_time) ==
    SelectSeq(times, LAMBDA t : current_time - t < WindowSeconds)

\* mutant: one request more than the limit is let through
RateExceededOffByOne(times, limit) == Len(times) > limit

\* line 35
RateExceeded(times, limit) == Len(times) >= limit

\* a request dispatched: who sent it, where to, the time read at line 25,
\* and what became of it
Dispatched(req, at, st) ==
    [ip |-> req.ip, path |-> req.path, at |-> at, st |-> st]

\* a request reaches the server
Arrive(ip, path) ==
    /\ Len(inbox) + Len(log) < MaxRequests
    /\ inbox' = Append(inbox, [ip |-> ip, path |-> path])
    /\ UNCHANGED <<pc, max_retries, code, language, file_name, analysis_type,
                   credentials, walk, reporting, clock, requests_per_minute,
                   requests, log, loop_owner, callvars>>

\* the sequence without its i-th element
Remove(q, i) == SubSeq(q, 1, i - 1) \o SubSeq(q, i + 1, Len(q))

\* lines 24-49, run by the event loop when it is free, for any request
\* waiting: 429, or the request is recorded and passed to call_next
Dispatch(i) ==
    /\ loop_owner = 0
    /\ i \in DOMAIN inbox
    /\ LET client_ip == inbox[i].ip
           current_time == clock
           cleaned == CleanOld(requests[client_ip], current_time)
       IN  IF RateExceeded(cleaned, requests_per_minute)
           THEN /\ requests' = [requests EXCEPT ![client_ip] = cleaned]
                /\ log' = Append(log,
                        Dispatched(inbox[i], current_time, "rejected"))
           ELSE /\ requests' = [requests EXCEPT ![client_ip] =
                                    Append(cleaned, current_time)]
                /\ log' = Append(log,
                        Dispatched(inbox[i], current_time, "passed"))
    /\ inbox' = Remove(inbox, i)
    /\ UNCHANGED <<pc, max_retries, code, language, file_name, analysis_type,
                   credentials, walk, reporting, clock, requests_per_minute,
                   loop_owner, callvars>>

\* time passes
Tick(d) ==
    /\ clock + d <= MaxClock
    /\ clock' = clock + d
    /\ UNCHANGED <<pc, max_retries, code, language, file_name, analysis_type,
                   credentials, walk, reporting, requests_per_minute,
                   requests, inbox, log, loop_owner, callvars>>

LimiterInit ==
    /\ pc = "serving"
    /\ max_retries = 3
    /\ code = <<>>
    /\ language = "python"
    /\ file_name = "unknown"
    /\ analysis_type = pComprehensive
    /\ Constructed
    /\ NoWalk
    /\ NoReport
    /\ NoCall
    /\ clock = 0
    /\ requests_per_minute \in 1..MaxRate
    /\ requests = [ip \in ClientIps |-> <<>>]
    /\ inbox = <<>>
    /\ log = <<>>
    /\ loop_owner = 0

LimiterNext ==
    \/ \E ip \in ClientIps : Arrive(ip, "/api/health")
    \/ \E i \in 1..MaxRequests : Dispatch(i)
    \/ \E d \in {20, 40} : Tick(d)

SpecLimiter == LimiterInit /\ [][LimiterNext]_vars

\* the dispatched requests of a client that were passed downstream
Admitted(ip) ==
    { j \in DOMAIN log : log[j].ip = ip /\ log[j].st # "rejected" }

\* the requests of the same client admitted before request i and less than
\* 60 seconds before it
RecentBefore(i) ==
    { k \in Admitted(log[i].ip) : k < i /\ log[i].at - log[k].at < 60 }

\* C28: for every client at most requests_per_minute of its requests are
\* passed downstream within any 60-second window, and a request dispatched
\* while requests_per_minute admitted requests of its client lie within the
\* past 60 seconds is answered 429 and not passed downstream.
C28_RateBound ==
    /\ \A ip \in ClientIps : \A j \in Admitted(ip) :
         Cardinality({ k \in Admitted(ip) :
                         /\ log[j].at <= log[k].at
                         /\ log[k].at < log[j].at + 60 })
           <= requests_per_minute
    /\ \A i \in DOMAIN log :
         Cardinality(RecentBefore(i)) >= requests_per_minute
           => log[i].st = "rejected"

C28_Witness ==
    /\ requests_per_minute = 2
    /\ Len(log) = 3
    /\ \A i \in 1..3 : log[i].ip = "10.0.0.1"
    /\ log[1].at = 0
    /\ log[2].at = 40
    /\ log[3].at = 40
    /\ log[1].st = "passed"
    /\ log[2].st = "passed"
    /\ log[3].st = "rejected"

\* C29: a rejected request is not recorded in its client's window, a
\* request changes no other client's window, and a request is admitted
\* whenever fewer than requests_per_minute admitted requests of its client
\* lie within the 60 seconds before it, whatever was rejected in between.
C29_Recovery ==
    /\ [](/\ \A i \in DOMAIN log :
               Cardinality(RecentBefore(i)) < requests_per_minute
                 => log[i].st # "rejected"
          /\ \A ip \in ClientIps : \A n \in DOMAIN requests[ip] :
               \E j \in Admitted(ip) : log[j].at = requests[ip][n]
          /\ \A ip \in ClientIps :
               Len(requests[ip]) <= Cardinality(Admitted(ip)))
    /\ [][/\ \A ip \in ClientIps :
               requests'[ip] # requests[ip]
                 => /\ Len(log') = Len(log) + 1
                    /\ log'[Len(log')].ip = ip
          /\ (Len(log') = Len(log) + 1 /\ log'[Len(log')].st = "rejected")
               => \A ip \in ClientIps :
                    /\ Len(requests'[ip]) <= Len(requests[ip])
                    /\ \A n \in DOMAIN requests'[ip] :
                         \E m \in DOMAIN requests[ip] :
                            requests'[ip][n] = requests[ip][m]]_vars

C29_Witness ==
    /\ requests_per_minute = 1
    /\ Len(log) = 3
    /\ \A i \in 1..3 : log[i].ip = "10.0.0.2"
    /\ log[1].at = 0
    /\ log[1].st = "passed"
    /\ log[2].at = 40
    /\ log[2].st = "rejected"
    /\ log[3].at = 60
    /\ log[3].st = "passed"
    /\ requests["10.0.0.2"] = <<60>>

(***************************************************************************)
(* The REST server (src/api/server.py, src/api/routes.py): one process,    *)
(* one event loop.  Every handler is an async def, so it runs on the loop  *)
(* itself; the /api/analyze handler calls the synchronous analyze_code     *)
(* without an await, so from its start to its return the loop runs nothing *)
(* else.                                                                   *)
(***************************************************************************)
ServerInit ==
    /\ pc = "serving"
    /\ max_retries = 3
    /\ code = <<>>
    /\ language = "python"
    /\ file_name = "unknown"
    /\ analysis_type = pComprehensive
    /\ api_key = NoneValue
    /\ env_api_key = "sk-env"
    /\ self_api_key = NoneValue
    /\ client = NoneValue
    /\ NoWalk
    /\ NoReport
    /\ NoCall
    /\ clock = 0
    /\ requests_per_minute = 60
    /\ requests = [ip \in ClientIps |-> <<>>]
    /\ inbox = <<>>
    /\ log = <<>>
    /\ loop_owner = 0

\* the log with the state of request j set
Mark(j, st) == [log EXCEPT ![j].st = st]

\* routes.py lines 120-123, run by the event loop when it is free
HealthCheck(j) ==
    /\ loop_owner = 0
    /\ j \in DOMAIN log
    /\ log[j].st = "passed"
    /\ log[j].path = "/api/health"
    /\ log' = Mark(j, "done")
    /\ UNCHANGED <<pc, max_retries, code, language, file_name, analysis_type,
                   credentials, walk, reporting, clock, requests_per_minute,
                   requests, inbox, loop_owner, callvars>>

\* routes.py lines 47-61: the handler starts on the event loop, builds a
\* CodeAnalyzer() and enters its analyze_code
AnalyzeStart(j) ==
    /\ loop_owner = 0
    /\ j \in DOMAIN log
    /\ log[j].st = "passed"
    /\ log[j].path = "/api/analyze"
    /\ log' = Mark(j, "running")
    /\ loop_owner' = j
    /\ self_api_key' = Credential(NoneValue, env_api_key)
    /\ client' = self_api_key'
    /\ max_retries' = 3
    /\ code' = <<"x">>
    /\ language' = "python"
    /\ file_name' = "unknown"
    /\ pc' = "ready"
    /\ UNCHANGED <<analysis_type, api_key, env_api_key, walk, reporting,
                   clock, requests_per_minute, requests, inbox, callvars>>

\* routes.py lines 63-105: analyze_code has returned, the response is built
\* and the handler gives the loop back
AnalyzeReturn ==
    /\ loop_owner # 0
    /\ pc = "returned"
    /\ log' = Mark(loop_owner, "done")
    /\ loop_owner' = 0
    /\ pc' = "serving"
    /\ attempt' = 0
    /\ calls' = 0
    /\ sleeps' = <<>>
    /\ outcomes' = <<>>
    /\ given' = JNull
    /\ wrap' = NoWrap
    /\ reply' = <<>>
    /\ result' = <<>>
    /\ prompt' = NoPrompt
    /\ UNCHANGED <<max_retries, code, language, file_name, analysis_type,
                   credentials, walk, reporting, clock, requests_per_minute,
                   requests, inbox, locals, raised>>

ServerNext ==
    \/ \E path \in {"/api/analyze", "/api/health"} : Arrive("10.0.0.1", path)
    \/ \E i \in 1..MaxRequests : Dispatch(i)
    \/ \E j \in 1..MaxRequests : HealthCheck(j)
    \/ \E j \in 1..MaxRequests : AnalyzeStart(j)
    \/ Next
    \/ AnalyzeReturn

SpecServer == ServerInit /\ [][ServerNext]_vars

\* C23: while the retry loop of one /api/analyze request is in a backoff
\* sleep, every other request that is waiting can make progress: a request
\* received can be dispatched, and a request passed by the middleware
\* (another /api/analyze, or /api/health) can be handled.
C23_SleepBlocksOnlyCaller ==
    (pc = "sleeping" /\ loop_owner # 0) =>
        /\ \A i \in DOMAIN inbox : ENABLED Dispatch(i)
        /\ \A j \in DOMAIN log :
             log[j].st = "passed"
               => ENABLED (HealthCheck(j) \/ AnalyzeStart(j))

====
